---- MODULE Spec2Model ----
(***************************************************************************)
(* The AI chat conversation tree of FragCoder: the useChatState hook       *)
(* (message store, branch selections, task pipeline, display projection)   *)
(* and the AIPanel / Chat handlers that drive it (submit, retry, edit,     *)
(* branch navigation, clear), with the asynchronous steps of a generation  *)
(* request (thumbnail capture, the prompt call, the auto-reset timer) as   *)
(* separate steps of the event loop.                                       *)
(***************************************************************************)
EXTENDS Bags, FiniteSets, Integers, Sequences, TLC

\* Number of message ids (crypto.randomUUID results) a behaviour may draw.
MaxId == 5

\* Largest branch index the raw setActiveBranch call is tried with.
MaxIndex == 2

\* Number of message ids drawn when setActiveBranch is also called directly.
MaxHookId == 4

\* Number of message ids drawn in the behaviours checked for progress.
MaxLiveId == 4

\* Ids a behaviour of SpecCalls may draw.
MaxCallId == 4

\* Messages in a store handed to deleteDescendants in SpecWalk.
MaxWalkLen == 3

\* Ids a behaviour of SpecNoCode may draw.
MaxNoCodeId == 6

\* Ids a behaviour of SpecMulti may draw.
MaxMultiId == 5

\* Components that call useThumbnailCapture.
MaxHooks == 3

\* ThumbnailRenderer objects a behaviour of SpecThumb may construct.
MaxRenderers == 3

\* parentId null; as a branch key it stands for the literal 'root'.
NULL == 0

VARIABLES
  messages,        \* useState<ChatMessageNode[]>: the flat store, insertion order
  activeBranches,  \* useState<Map<string, number>>: parent key -> branch index
  taskState,       \* useState<TaskState>: [status, steps]
  isLoading,       \* AIPanel useState(false)
  pending,         \* bag of handler continuations suspended at an await
  timers,          \* number of scheduled, not yet fired, setTimeout resets
  nextId,          \* the next fresh id
  idBudget,        \* how many ids this behaviour may draw (never changes)
  lastOp,          \* history: the operation that produced this state, its
                   \* argument, how many messages it removed, and the
                   \* reply a settled request came back with
  accepted,        \* history: the submit last accepted with nothing suspended:
                   \* the display it saw, the parent it chose, its user message
  retried,         \* history: the user message last retried and the display up
                   \* to it, until a response to it is added
  editor,          \* the code in the editor tab: NULL for code the user wrote,
                   \* or the user message whose generated code was applied
  walk,            \* deleteDescendants taken call by call: its position, the
                   \* frames of collectDescendants and idsToDelete
  sharedRenderer,  \* module-level singleton: NULL or the ThumbnailRenderer
  refCount,        \* module-level reference count
  rendererRef,     \* per hook: useRef<ThumbnailRenderer | null>
  mounted,         \* the hooks whose effect has run and not been cleaned up
  renderers,       \* history: how many renderers were constructed, and
                   \* which of them had dispose() called
  captured         \* history: what the last captureThumbnail call did

vars == <<messages, activeBranches, taskState, isLoading, pending, timers, nextId, idBudget, lastOp, accepted, retried, editor, walk,
         sharedRenderer, refCount, rendererRef, mounted, renderers, captured>>

----------------------------------------------------------------------------
(* Helpers for JavaScript arrays and maps *)

Min(a, b) == IF a < b THEN a ELSE b

\* What indexing past either end of an array, or a failed find, gives.
undefined == [id |-> NULL, parentId |-> NULL, from |-> "undefined", isError |-> FALSE, code |-> FALSE]

\* arr[i] with a zero-based index.
ArrayAt(arr, i) == IF i >= 0 /\ i < Len(arr) THEN arr[i + 1] ELSE undefined

\* activeBranches.get(key) ?? 0
BranchGet(ab, key) == IF key \in DOMAIN ab THEN ab[key] ELSE 0

\* messages.find(m => m.id === id)
\* A lookup that falls back to the first stored message.
FindMessageOrFirst(msgs, id) ==
  LET hits == SelectSeq(msgs, LAMBDA m : m.id = id)
  IN IF Len(hits) = 0 THEN ArrayAt(msgs, 0) ELSE hits[1]

FindMessage(msgs, id) ==
  LET hits == SelectSeq(msgs, LAMBDA m : m.id = id)
  IN IF Len(hits) = 0 THEN undefined ELSE hits[1]

\* messages.filter(m => m.parentId === parentId && m.from === 'user')
UserChildren(msgs, parentId) ==
  SelectSeq(msgs, LAMBDA m : m.parentId = parentId /\ m.from = "user")

\* messages.filter(m => m.parentId === userMessageId && m.from === 'assistant')
getAssistantResponses(msgs, userMessageId) ==
  SelectSeq(msgs, LAMBDA m : m.parentId = userMessageId /\ m.from = "assistant")

----------------------------------------------------------------------------
(* Task pipeline *)

INITIAL_TASK_STATE == [status |-> "idle", steps |-> <<>>]

createPipelineSteps ==
  << [id |-> "generate", status |-> "pending"],
     [id |-> "compile", status |-> "pending"] >>

startTask ==
  [status |-> "thinking",
   steps |-> [createPipelineSteps EXCEPT ![1].status = "in_progress"]]

setCompiling(prev) ==
  [status |-> "compiling",
   steps |-> [i \in DOMAIN prev.steps |->
                IF prev.steps[i].id = "generate"
                  THEN [prev.steps[i] EXCEPT !.status = "complete"]
                  ELSE IF prev.steps[i].id = "compile"
                    THEN [prev.steps[i] EXCEPT !.status = "in_progress"]
                    ELSE prev.steps[i]]]

\* The state part of completeTask; the timer it schedules is counted in timers.
completeTask(prev) ==
  [status |-> "complete",
   steps |-> [i \in DOMAIN prev.steps |-> [prev.steps[i] EXCEPT !.status = "complete"]]]

\* completeTask without its setTimeout: nothing is scheduled.
scheduleNothing(scheduled) == scheduled

\* The setTimeout of completeTask: one more reset is scheduled.
scheduleReset(scheduled) == scheduled + 1

\* errorTask that leaves the task state as it is.
errorTaskSkipped(prev) == prev

errorTask(prev) ==
  [status |-> "error",
   steps |-> [i \in DOMAIN prev.steps |->
                IF prev.steps[i].status = "in_progress"
                  THEN [prev.steps[i] EXCEPT !.status = "error"]
                  ELSE prev.steps[i]]]

----------------------------------------------------------------------------
(* Generation backend: what sendPrompt settles with *)

\* What a generation request can come back with: no answer from the backend,
\* or the content the LLM returned. json says whether the content is JSON
\* ("direct"), JSON inside a markdown code block ("fenced") or neither
\* ("invalid"); code and explanation say what the parsed object holds
\* ("string", "number" or "absent").
NetworkError == [kind |-> "network", json |-> "invalid", code |-> "absent", explanation |-> "absent"]

LLMContent(json, code, explanation) ==
  [kind |-> "llm", json |-> json, code |-> code, explanation |-> explanation]

\* One reply of each kind the pipeline tells apart.
Replies ==
  {NetworkError,
   LLMContent("invalid", "absent", "absent"),
   LLMContent("direct", "absent", "string"),
   LLMContent("fenced", "string", "number"),
   LLMContent("direct", "string", "string"),
   LLMContent("fenced", "string", "string")}

\* No reply: the step settled no request.
NoReply == [kind |-> "none", json |-> "invalid", code |-> "absent", explanation |-> "absent"]

\* parseResponse that only requires the two fields to be present.
parseResponseLenient(llmResponse) ==
  IF llmResponse.json = "invalid" THEN "throw"
  ELSE IF llmResponse.code = "absent" \/ llmResponse.explanation = "absent" THEN "throw"
  ELSE "return"

\* parseResponse: "return" when it returns {code, explanation}, "throw" otherwise.
parseResponse(llmResponse) ==
  IF llmResponse.json = "invalid" THEN "throw"
  ELSE IF llmResponse.code = "absent" \/ llmResponse.explanation = "absent" THEN "throw"
  ELSE IF llmResponse.code # "string" \/ llmResponse.explanation # "string" THEN "throw"
  ELSE "return"

\* processPrompt rethrows what the pipeline throws; sendPrompt's promise is
\* rejected then, and when the request gets no answer.
sendPrompt(reply) ==
  IF reply.kind = "network" THEN "rejected"
  ELSE IF parseResponse(reply) = "throw" THEN "rejected"
  ELSE "resolved"

\* setCodeAndCompile(response.code, '1'): the tab holds the generated code.
setCodeAndCompile(ed, userMessageId) == userMessageId

----------------------------------------------------------------------------
(* Display projection *)

RECURSIVE traverse(_, _, _)
traverse(msgs, ab, userMessage) ==
  LET responses == getAssistantResponses(msgs, userMessage.id)
  IN IF Len(responses) = 0
       THEN <<userMessage>>
       ELSE
         LET assistantResponse == responses[1]
             followUpUsers == UserChildren(msgs, assistantResponse.id)
             activeFollowUp ==
               ArrayAt(followUpUsers,
                       Min(BranchGet(ab, assistantResponse.id), Len(followUpUsers) - 1))
         IN IF Len(followUpUsers) > 0 /\ activeFollowUp # undefined
              THEN <<userMessage, assistantResponse>> \o traverse(msgs, ab, activeFollowUp)
              ELSE <<userMessage, assistantResponse>>

\* displayMessages with the root list left unfiltered (every stored message).
displayMessagesUnfilteredRoots(msgs, ab) ==
  LET activeRootUser == ArrayAt(msgs, Min(BranchGet(ab, NULL), Len(msgs) - 1))
  IN IF Len(msgs) = 0 THEN <<>>
     ELSE IF activeRootUser = undefined THEN <<>>
     ELSE traverse(msgs, ab, activeRootUser)

\* displayMessages that starts from the newest user message, whatever its parent.
displayMessagesFromLastUser(msgs, ab) ==
  LET userMessages == SelectSeq(msgs, LAMBDA m : m.from = "user")
  IN IF Len(userMessages) = 0 THEN <<>>
     ELSE traverse(msgs, ab, userMessages[Len(userMessages)])

displayMessages(msgs, ab) ==
  LET rootUserMessages == UserChildren(msgs, NULL)
      activeRootUser ==
        ArrayAt(rootUserMessages, Min(BranchGet(ab, NULL), Len(rootUserMessages) - 1))
  IN IF Len(rootUserMessages) = 0 THEN <<>>
     ELSE IF activeRootUser = undefined THEN <<>>
     ELSE traverse(msgs, ab, activeRootUser)

\* The display sequence of the current state.
display == displayMessages(messages, activeBranches)

\* getLastAssistantId over a display sequence: the last assistant's id, or null.
getLastAssistantId(disp) ==
  LET assistants == SelectSeq(disp, LAMBDA m : m.from = "assistant")
  IN IF Len(assistants) = 0 THEN NULL ELSE assistants[Len(assistants)].id

\* getBranchInfo that counts every user message, whatever its parent.
getBranchInfoAllUsers(msgs, ab, userMessageId) ==
  LET msg == FindMessage(msgs, userMessageId)
  IN IF msg = undefined THEN [count |-> 1, activeIndex |-> 0]
     ELSE [count |-> Len(SelectSeq(msgs, LAMBDA m : m.from = "user")),
           activeIndex |-> BranchGet(ab, msg.parentId)]

\* getBranchInfo that always reports the first sibling as active.
getBranchInfoFirstActive(msgs, ab, userMessageId) ==
  LET msg == FindMessage(msgs, userMessageId)
  IN IF msg = undefined THEN [count |-> 1, activeIndex |-> 0]
     ELSE [count |-> Len(UserChildren(msgs, msg.parentId)), activeIndex |-> 0]

\* getBranchInfo(userMessageId)
getBranchInfo(msgs, ab, userMessageId) ==
  LET msg == FindMessage(msgs, userMessageId)
  IN IF msg = undefined THEN [count |-> 1, activeIndex |-> 0]
     ELSE [count |-> Len(UserChildren(msgs, msg.parentId)),
           activeIndex |-> BranchGet(ab, msg.parentId)]

----------------------------------------------------------------------------
(* Store operations *)

\* addUserMessage that puts the new message in front of the store.
addUserMessagePrepended(msgs, id, parentId, hasCode) ==
  <<[id |-> id, parentId |-> parentId, from |-> "user",
     isError |-> FALSE, code |-> hasCode]>> \o msgs

addUserMessage(msgs, id, parentId, hasCode) ==
  Append(msgs, [id |-> id, parentId |-> parentId, from |-> "user",
                isError |-> FALSE, code |-> hasCode])

\* addAssistantMessage that adds nothing.
addAssistantMessageDropped(msgs, id, parentUserMessageId, hasCode, isError) == msgs

addAssistantMessage(msgs, id, parentUserMessageId, hasCode, isError) ==
  Append(msgs, [id |-> id, parentId |-> parentUserMessageId, from |-> "assistant",
                isError |-> isError, code |-> hasCode])

\* setActiveBranch that selects the sibling before the requested one.
setActiveBranchOffByOne(ab, parentKey, branchIndex) ==
  [k \in DOMAIN ab \cup {parentKey} |-> IF k = parentKey THEN branchIndex - 1 ELSE ab[k]]

setActiveBranch(ab, parentKey, branchIndex) ==
  [k \in DOMAIN ab \cup {parentKey} |-> IF k = parentKey THEN branchIndex ELSE ab[k]]

\* collectDescendants: the ids of the children of id and of their descendants.
RECURSIVE collectDescendants(_, _)
collectDescendants(msgs, id) ==
  LET children == {msgs[i].id : i \in {j \in DOMAIN msgs : msgs[j].parentId = id}}
  IN children \cup UNION {collectDescendants(msgs, c) : c \in children}

\* deleteDescendants that truncates the store after the message.
deleteEverythingAfter(msgs, parentId) ==
  LET at == CHOOSE i \in DOMAIN msgs : msgs[i].id = parentId
  IN IF \E i \in DOMAIN msgs : msgs[i].id = parentId THEN SubSeq(msgs, 1, at) ELSE msgs

\* deleteDescendants that removes the direct children only.
deleteChildrenOnly(msgs, parentId) ==
  SelectSeq(msgs, LAMBDA m : m.parentId # parentId)

deleteDescendants(msgs, parentId) ==
  LET idsToDelete == collectDescendants(msgs, parentId)
  IN SelectSeq(msgs, LAMBDA m : m.id \notin idsToDelete)

----------------------------------------------------------------------------
(* Suspended handlers *)

\* A handleSubmit suspended at `await captureThumbnail(codeContext)`; parentId is
\* what chatState.getLastAssistantId() of the handler's render will return.
AtSubmitThumbnail(parentId) == [pc |-> "handleSubmit:captureThumbnail", arg |-> parentId]

\* A callAPI suspended at `await sendPrompt(...)` for userMessageId.
AtSendPrompt(userMessageId) == [pc |-> "callAPI:sendPrompt", arg |-> userMessageId]

\* A callAPI suspended at `await captureThumbnail(response.code)` for userMessageId.
AtCaptureThumbnail(userMessageId) == [pc |-> "callAPI:captureThumbnail", arg |-> userMessageId]

Suspend(bag, r) == bag (+) SetToBag({r})
Resume(bag, r) == bag (-) SetToBag({r})

\* The generation requests in flight: callAPI started and not yet settled.
InFlight == {r \in BagToSet(pending) : r.pc \in {"callAPI:sendPrompt", "callAPI:captureThumbnail"}}

\* Ids the suspended handlers will still draw: a suspended submit adds a user
\* message and a response, a suspended callAPI adds a response.
Reserved ==
  BagCardinality(pending)
    + BagCardinality([r \in {x \in BagToSet(pending) : x.pc = "handleSubmit:captureThumbnail"}
                        |-> pending[r]])

\* A handler that draws n more ids may start.
IdsLeft(n) == (nextId - 1) + Reserved + n <= idBudget

\* The user messages the Chat component renders (with their action bars).
DisplayedUserIds == {display[i].id : i \in {j \in DOMAIN display : display[j].from = "user"}}

\* The ids of a sequence of messages, in order.
Ids(msgs) == [i \in DOMAIN msgs |-> msgs[i].id]

\* No accepted submit is being followed.
NoSubmit == [live |-> FALSE, parent |-> NULL, view |-> <<>>, user |-> NULL]

\* handleSubmit is entered with nothing suspended: what it sees and chooses.
AcceptSubmit(userId) ==
  IF pending = EmptyBag
    THEN [live |-> TRUE, parent |-> getLastAssistantId(display),
          view |-> Ids(display), user |-> userId]
    ELSE accepted

\* A response is added under userMessageId: the followed submit is settled.
SettleSubmit(userMessageId) ==
  IF accepted.live /\ accepted.user = userMessageId THEN NoSubmit ELSE accepted

\* The prefix of a sequence of ids up to and including id.
PrefixThrough(ids, id) ==
  IF \E i \in DOMAIN ids : ids[i] = id
    THEN SubSeq(ids, 1, CHOOSE i \in DOMAIN ids : ids[i] = id)
    ELSE ids

\* No retry is being followed.
NoRetry == [user |-> NULL, view |-> <<>>]

\* handleReroll is called on a displayed user message: remember the message
\* and the display up to it, until a response to it is added.
StartRetry(userMessageId) ==
  [user |-> userMessageId, view |-> PrefixThrough(Ids(display), userMessageId)]

\* A response to the retried message has been added.
SettleRetry(userMessageId) ==
  IF retried.user = userMessageId THEN NoRetry ELSE retried

\* deleteDescendants is not running.
NoWalk == [pc |-> "idle", stack |-> <<>>, idsToDelete |-> {}]

\* One call collectDescendants(id): the children prev.filter(...) found, not
\* yet visited by forEach.
Frame(msgs, id) ==
  [id |-> id, todo |-> Ids(SelectSeq(msgs, LAMBDA m : m.parentId = id))]

\* The frames the engine's call stack holds before it throws RangeError; more
\* than any walk over a store without a cycle needs.
MaxStack == MaxWalkLen + 2

----------------------------------------------------------------------------
(* useThumbnailCapture: the shared renderer *)

Hooks == 1..MaxHooks

\* captureThumbnail has not been called.
NoCapture == [hook |-> NULL, renderer |-> NULL]

\* The module-level state read and written by the two functions.
Shared == [sharedRenderer |-> sharedRenderer, refCount |-> refCount, renderers |-> renderers]

\* getSharedRenderer: constructs the renderer if there is none, counts the
\* reference; the value returned is the result's sharedRenderer.
getSharedRenderer(s) ==
  LET fresh == s.renderers.created + 1
  IN IF s.sharedRenderer = NULL
     THEN [sharedRenderer |-> fresh,
           refCount |-> s.refCount + 1,
           renderers |-> [s.renderers EXCEPT !.created = fresh]]
     ELSE [s EXCEPT !.refCount = s.refCount + 1]

\* releaseSharedRenderer that drops the reference and keeps the renderer.
releaseSharedRendererKept(s) ==
  [s EXCEPT !.refCount = s.refCount - 1]

releaseSharedRenderer(s) ==
  LET count == s.refCount - 1
  IN IF count <= 0 /\ s.sharedRenderer # NULL
     THEN [sharedRenderer |-> NULL,
           refCount |-> 0,
           renderers |-> [s.renderers EXCEPT !.disposed = @ \cup {s.sharedRenderer}]]
     ELSE [s EXCEPT !.refCount = count]

InitThumb ==
  /\ sharedRenderer = NULL
  /\ refCount = 0
  /\ rendererRef = [h \in Hooks |-> NULL]
  /\ mounted = {}
  /\ renderers = [created |-> 0, disposed |-> {}]
  /\ captured = NoCapture

ThumbUnchanged ==
  UNCHANGED <<sharedRenderer, refCount, rendererRef, mounted, renderers, captured>>

PanelUnchanged ==
  UNCHANGED <<messages, activeBranches, taskState, isLoading, pending, timers,
              nextId, idBudget, lastOp, accepted, retried, editor, walk>>

----------------------------------------------------------------------------
(* Initial state *)

InitWith(budget) ==
  /\ idBudget = budget
  /\ messages = <<>>
  /\ activeBranches = <<>>
  /\ taskState = INITIAL_TASK_STATE
  /\ isLoading = FALSE
  /\ pending = EmptyBag
  /\ timers = 0
  /\ nextId = 1
  /\ lastOp = [op |-> "init", id |-> NULL, removed |-> 0, reply |-> NoReply]
  /\ accepted = NoSubmit
  /\ retried = NoRetry
  /\ editor = NULL
  /\ walk = NoWalk
  /\ InitThumb

Init == InitWith(MaxId)

----------------------------------------------------------------------------
(* handleSubmit *)

\* handleSubmit with the Image tab's code included: runs to the thumbnail await.
SubmitBegin ==
  /\ ~isLoading
  /\ IdsLeft(2)
  /\ pending' = Suspend(pending, AtSubmitThumbnail(getLastAssistantId(display)))
  /\ lastOp' = [op |-> "submitBegin", id |-> NULL, removed |-> 0, reply |-> NoReply]
  /\ accepted' = AcceptSubmit(NULL)
  /\ retried' = retried
  /\ editor' = editor
  /\ walk' = walk
  /\ ThumbUnchanged
  /\ idBudget' = idBudget
  /\ UNCHANGED <<messages, activeBranches, taskState, isLoading, timers, nextId>>

\* The rest of handleSubmit once the thumbnail is there: addUserMessage,
\* setIsLoading(true), and callAPI up to its await of sendPrompt.
SubmitResume(r) ==
  /\ r.pc = "handleSubmit:captureThumbnail"
  /\ BagIn(r, pending)
  /\ messages' = addUserMessage(messages, nextId, r.arg, TRUE)
  /\ isLoading' = TRUE
  /\ taskState' = startTask
  /\ pending' = Suspend(Resume(pending, r), AtSendPrompt(nextId))
  /\ nextId' = nextId + 1
  /\ lastOp' = [op |-> "submit", id |-> nextId, removed |-> 0, reply |-> NoReply]
  /\ accepted' = (IF accepted.live /\ accepted.user = NULL /\ r.arg = accepted.parent
                    THEN [accepted EXCEPT !.user = nextId] ELSE accepted)
  /\ retried' = retried
  /\ editor' = editor
  /\ walk' = walk
  /\ ThumbUnchanged
  /\ idBudget' = idBudget
  /\ UNCHANGED <<activeBranches, timers>>

\* handleSubmit without code context: no await before callAPI.
SubmitNoCode ==
  /\ ~isLoading
  /\ IdsLeft(2)
  /\ messages' = addUserMessage(messages, nextId, getLastAssistantId(display), FALSE)
  /\ isLoading' = TRUE
  /\ taskState' = startTask
  /\ pending' = Suspend(pending, AtSendPrompt(nextId))
  /\ nextId' = nextId + 1
  /\ lastOp' = [op |-> "submit", id |-> nextId, removed |-> 0, reply |-> NoReply]
  /\ accepted' = AcceptSubmit(nextId)
  /\ retried' = retried
  /\ editor' = editor
  /\ walk' = walk
  /\ ThumbUnchanged
  /\ idBudget' = idBudget
  /\ UNCHANGED <<activeBranches, timers>>

(* handleReroll: prepareRetry, then callAPI up to its await *)
handleReroll(userMessageId) ==
  /\ ~isLoading
  /\ LET userMessage == FindMessage(messages, userMessageId)
     IN userMessage # undefined /\ userMessage.from = "user"
  /\ IdsLeft(1)
  /\ messages' = deleteDescendants(messages, userMessageId)
  /\ isLoading' = TRUE
  /\ taskState' = startTask
  /\ pending' = Suspend(pending, AtSendPrompt(userMessageId))
  /\ lastOp' = [op |-> "retry", id |-> userMessageId, removed |-> Len(messages) - Len(messages'), reply |-> NoReply]
  /\ accepted' = accepted
  /\ retried' = StartRetry(userMessageId)
  /\ editor' = editor
  /\ walk' = walk
  /\ ThumbUnchanged
  /\ idBudget' = idBudget
  /\ UNCHANGED <<activeBranches, timers, nextId>>

(* handleEdit: add a sibling, select it, then callAPI up to its await *)
handleEdit(userMessageId) ==
  /\ ~isLoading
  /\ LET originalMessage == FindMessage(messages, userMessageId)
         parentId == originalMessage.parentId
         newBranchIndex == Len(UserChildren(messages, parentId))
     IN /\ originalMessage # undefined
        /\ IdsLeft(2)
        /\ messages' = addUserMessage(messages, nextId, parentId, originalMessage.code)
        /\ activeBranches' = setActiveBranch(activeBranches, parentId, newBranchIndex)
  /\ isLoading' = TRUE
  /\ taskState' = startTask
  /\ pending' = Suspend(pending, AtSendPrompt(nextId))
  /\ nextId' = nextId + 1
  /\ lastOp' = [op |-> "edit", id |-> userMessageId, removed |-> 0, reply |-> NoReply]
  /\ accepted' = accepted
  /\ retried' = retried
  /\ editor' = editor
  /\ walk' = walk
  /\ ThumbUnchanged
  /\ idBudget' = idBudget
  /\ UNCHANGED timers

----------------------------------------------------------------------------
(* callAPI after its awaits *)

\* sendPrompt resolved: setCompiling, setCodeAndCompile, then await the thumbnail.
PromptResolved(r, reply) ==
  /\ r.pc = "callAPI:sendPrompt"
  /\ sendPrompt(reply) = "resolved"
  /\ BagIn(r, pending)
  /\ taskState' = setCompiling(taskState)
  /\ pending' = Suspend(Resume(pending, r), AtCaptureThumbnail(r.arg))
  /\ lastOp' = [op |-> "setCompiling", id |-> r.arg, removed |-> 0, reply |-> reply]
  /\ accepted' = accepted
  /\ retried' = retried
  /\ editor' = setCodeAndCompile(editor, r.arg)
  /\ walk' = walk
  /\ ThumbUnchanged
  /\ idBudget' = idBudget
  /\ UNCHANGED <<messages, activeBranches, isLoading, timers, nextId>>

\* sendPrompt rejected: the catch block, then the caller's setIsLoading(false).
PromptRejected(r, reply) ==
  /\ r.pc = "callAPI:sendPrompt"
  /\ sendPrompt(reply) = "rejected"
  /\ BagIn(r, pending)
  /\ taskState' = errorTask(taskState)
  /\ messages' = addAssistantMessage(messages, nextId, r.arg, FALSE, TRUE)
  /\ isLoading' = FALSE
  /\ pending' = Resume(pending, r)
  /\ nextId' = nextId + 1
  /\ lastOp' = [op |-> "fail", id |-> r.arg, removed |-> 0, reply |-> reply]
  /\ accepted' = SettleSubmit(r.arg)
  /\ retried' = SettleRetry(r.arg)
  /\ editor' = editor
  /\ walk' = walk
  /\ ThumbUnchanged
  /\ idBudget' = idBudget
  /\ UNCHANGED <<activeBranches, timers>>

\* The thumbnail of the generated code is there: addAssistantMessage,
\* completeTask (which schedules the reset), then the caller's setIsLoading(false).
ThumbnailCaptured(r) ==
  /\ r.pc = "callAPI:captureThumbnail"
  /\ BagIn(r, pending)
  /\ messages' = addAssistantMessage(messages, nextId, r.arg, TRUE, FALSE)
  /\ taskState' = completeTask(taskState)
  /\ timers' = scheduleReset(timers)
  /\ isLoading' = FALSE
  /\ pending' = Resume(pending, r)
  /\ nextId' = nextId + 1
  /\ lastOp' = [op |-> "complete", id |-> r.arg, removed |-> 0, reply |-> NoReply]
  /\ accepted' = SettleSubmit(r.arg)
  /\ retried' = SettleRetry(r.arg)
  /\ editor' = editor
  /\ walk' = walk
  /\ ThumbUnchanged
  /\ idBudget' = idBudget
  /\ UNCHANGED activeBranches

\* The setTimeout callback of completeTask fires.
AutoReset ==
  /\ timers > 0
  /\ taskState' = INITIAL_TASK_STATE
  /\ timers' = timers - 1
  /\ lastOp' = [op |-> "autoReset", id |-> NULL, removed |-> 0, reply |-> NoReply]
  /\ accepted' = accepted
  /\ retried' = retried
  /\ editor' = editor
  /\ walk' = walk
  /\ ThumbUnchanged
  /\ idBudget' = idBudget
  /\ UNCHANGED <<messages, activeBranches, isLoading, pending, nextId>>

----------------------------------------------------------------------------
(* Clear and branch navigation *)

\* A Clear that empties the store and the map but leaves the task state.
clearHistoryKeepsTask ==
  /\ Len(messages) > 0
  /\ messages' = <<>>
  /\ activeBranches' = <<>>
  /\ lastOp' = [op |-> "clear", id |-> NULL, removed |-> Len(messages), reply |-> NoReply]
  /\ accepted' = NoSubmit
  /\ retried' = NoRetry
  /\ editor' = editor
  /\ walk' = walk
  /\ ThumbUnchanged
  /\ idBudget' = idBudget
  /\ UNCHANGED <<taskState, isLoading, pending, timers, nextId>>

\* The Clear chat button, enabled while the store is non-empty.
clearHistory ==
  /\ Len(messages) > 0
  /\ messages' = <<>>
  /\ activeBranches' = <<>>
  /\ taskState' = INITIAL_TASK_STATE
  /\ lastOp' = [op |-> "clear", id |-> NULL, removed |-> Len(messages), reply |-> NoReply]
  /\ accepted' = NoSubmit
  /\ retried' = NoRetry
  /\ editor' = editor
  /\ walk' = walk
  /\ ThumbUnchanged
  /\ idBudget' = idBudget
  /\ UNCHANGED <<isLoading, pending, timers, nextId>>

\* 'Previous version' on a displayed user message.
BranchPrevious(userMessageId) ==
  /\ ~isLoading
  /\ userMessageId \in DisplayedUserIds
  /\ LET branchInfo == getBranchInfo(messages, activeBranches, userMessageId)
         parentKey == FindMessage(messages, userMessageId).parentId
         newIndex == IF branchInfo.activeIndex > 0
                       THEN branchInfo.activeIndex - 1
                       ELSE branchInfo.count - 1
     IN /\ branchInfo.count > 1
        /\ activeBranches' = setActiveBranch(activeBranches, parentKey, newIndex)
  /\ lastOp' = [op |-> "previous", id |-> userMessageId, removed |-> 0, reply |-> NoReply]
  /\ accepted' = accepted
  /\ retried' = retried
  /\ editor' = editor
  /\ walk' = walk
  /\ ThumbUnchanged
  /\ idBudget' = idBudget
  /\ UNCHANGED <<messages, taskState, isLoading, pending, timers, nextId>>

\* 'Next version' that does not wrap after the last sibling.
BranchNextNoWrap(userMessageId) ==
  /\ ~isLoading
  /\ userMessageId \in DisplayedUserIds
  /\ LET branchInfo == getBranchInfo(messages, activeBranches, userMessageId)
         parentKey == FindMessage(messages, userMessageId).parentId
         newIndex == branchInfo.activeIndex + 1
     IN /\ branchInfo.count > 1
        /\ activeBranches' = setActiveBranch(activeBranches, parentKey, newIndex)
  /\ lastOp' = [op |-> "next", id |-> userMessageId, removed |-> 0, reply |-> NoReply]
  /\ accepted' = accepted
  /\ retried' = retried
  /\ editor' = editor
  /\ walk' = walk
  /\ ThumbUnchanged
  /\ idBudget' = idBudget
  /\ UNCHANGED <<messages, taskState, isLoading, pending, timers, nextId>>

\* 'Next version' on a displayed user message.
BranchNext(userMessageId) ==
  /\ ~isLoading
  /\ userMessageId \in DisplayedUserIds
  /\ LET branchInfo == getBranchInfo(messages, activeBranches, userMessageId)
         parentKey == FindMessage(messages, userMessageId).parentId
         newIndex == IF branchInfo.activeIndex < branchInfo.count - 1
                       THEN branchInfo.activeIndex + 1
                       ELSE 0
     IN /\ branchInfo.count > 1
        /\ activeBranches' = setActiveBranch(activeBranches, parentKey, newIndex)
  /\ lastOp' = [op |-> "next", id |-> userMessageId, removed |-> 0, reply |-> NoReply]
  /\ accepted' = accepted
  /\ retried' = retried
  /\ editor' = editor
  /\ walk' = walk
  /\ ThumbUnchanged
  /\ idBudget' = idBudget
  /\ UNCHANGED <<messages, taskState, isLoading, pending, timers, nextId>>

\* The hook's setActiveBranch called directly with any key and index.
SetActiveBranchRaw(parentKey, branchIndex) ==
  /\ activeBranches' = setActiveBranch(activeBranches, parentKey, branchIndex)
  /\ lastOp' = [op |-> "setActiveBranch", id |-> parentKey, removed |-> 0, reply |-> NoReply]
  /\ accepted' = accepted
  /\ retried' = retried
  /\ editor' = editor
  /\ walk' = walk
  /\ ThumbUnchanged
  /\ idBudget' = idBudget
  /\ UNCHANGED <<messages, taskState, isLoading, pending, timers, nextId>>

----------------------------------------------------------------------------
(* Specifications *)

----------------------------------------------------------------------------
(* The handlers called with an id they do not accept *)

\* handleReroll when prepareRetry returns null (no such message, or not a
\* user message): the handler returns.
handleRerollNotFound(userMessageId) ==
  /\ ~isLoading
  /\ LET userMessage == FindMessage(messages, userMessageId)
     IN userMessage = undefined \/ userMessage.from # "user"
  /\ lastOp' = [op |-> "retryNotFound", id |-> userMessageId, removed |-> 0, reply |-> NoReply]
  /\ accepted' = accepted
  /\ retried' = retried
  /\ editor' = editor
  /\ walk' = walk
  /\ ThumbUnchanged
  /\ idBudget' = idBudget
  /\ UNCHANGED <<messages, activeBranches, taskState, isLoading, pending, timers, nextId>>

\* handleEdit when the original message is not found: the handler returns.
handleEditNotFound(userMessageId) ==
  /\ ~isLoading
  /\ FindMessage(messages, userMessageId) = undefined
  /\ lastOp' = [op |-> "editNotFound", id |-> userMessageId, removed |-> 0, reply |-> NoReply]
  /\ accepted' = accepted
  /\ retried' = retried
  /\ editor' = editor
  /\ walk' = walk
  /\ ThumbUnchanged
  /\ idBudget' = idBudget
  /\ UNCHANGED <<messages, activeBranches, taskState, isLoading, pending, timers, nextId>>

PendingRecords ==
  {AtSubmitThumbnail(i) : i \in 0..MaxId}
    \cup {AtSendPrompt(i) : i \in 1..MaxId}
    \cup {AtCaptureThumbnail(i) : i \in 1..MaxId}

Next ==
  \/ SubmitBegin
  \/ \E r \in PendingRecords : SubmitResume(r)
  \/ SubmitNoCode
  \/ \E u \in DisplayedUserIds : handleReroll(u)
  \/ \E u \in DisplayedUserIds : handleEdit(u)
  \/ \E r \in PendingRecords, reply \in Replies : PromptResolved(r, reply)
  \/ \E r \in PendingRecords, reply \in Replies : PromptRejected(r, reply)
  \/ \E r \in PendingRecords : ThumbnailCaptured(r)
  \/ AutoReset
  \/ clearHistory
  \/ \E u \in DisplayedUserIds : BranchPrevious(u)
  \/ \E u \in DisplayedUserIds : BranchNext(u)

\* The panel as the user drives it.
Spec == Init /\ [][Next]_vars

\* The keys the projection reads: 'root' and the stored assistant messages.
BranchKeys ==
  {NULL} \cup {messages[i].id : i \in {j \in DOMAIN messages : messages[j].from = "assistant"}}

\* The panel, with the hook's setActiveBranch also called with arbitrary indices.
NextHook ==
  \/ Next
  \/ \E k \in BranchKeys, i \in (0 - 1)..MaxIndex : SetActiveBranchRaw(k, i)

SpecHook == InitWith(MaxHookId) /\ [][NextHook]_vars

\* The panel, with handleReroll and handleEdit also called with any id.
NextCalls ==
  \/ Next
  \/ \E u \in 1..MaxCallId : handleReroll(u)
  \/ \E u \in 1..MaxCallId : handleEdit(u)
  \/ \E u \in 1..MaxCallId : handleRerollNotFound(u)
  \/ \E u \in 1..MaxCallId : handleEditNotFound(u)

SpecCalls == InitWith(MaxCallId) /\ [][NextCalls]_vars

\* The panel, with the browser firing every scheduled timeout.
SpecLive == InitWith(MaxLiveId) /\ [][Next]_vars /\ WF_vars(AutoReset)

\* The panel with 'include code' switched off: getCurrentCode() is undefined,
\* so handleSubmit never waits for a thumbnail of the user's code.
NextNoCode ==
  \/ SubmitNoCode
  \/ \E u \in DisplayedUserIds : handleReroll(u)
  \/ \E u \in DisplayedUserIds : handleEdit(u)
  \/ \E r \in BagToSet(pending), reply \in Replies : PromptResolved(r, reply)
  \/ \E r \in BagToSet(pending), reply \in Replies : PromptRejected(r, reply)
  \/ \E r \in BagToSet(pending) : ThumbnailCaptured(r)
  \/ AutoReset
  \/ clearHistory
  \/ \E u \in DisplayedUserIds : BranchPrevious(u)
  \/ \E u \in DisplayedUserIds : BranchNext(u)

SpecNoCode == InitWith(MaxNoCodeId) /\ [][NextNoCode]_vars

\* Every await of a request settles: the thumbnail of a suspended submit, the
\* prompt call (resolved or rejected) and the thumbnail of the generated code.
AwaitsSettle ==
  \A r \in PendingRecords :
    /\ WF_vars(SubmitResume(r))
    /\ WF_vars(\E reply \in Replies : PromptResolved(r, reply) \/ PromptRejected(r, reply))
    /\ WF_vars(ThumbnailCaptured(r))

\* The panel, with every await settling and every timeout firing.
SpecSettle == SpecLive /\ AwaitsSettle

----------------------------------------------------------------------------
(* deleteDescendants, call by call, on any store *)

\* Any store of MaxWalkLen messages with distinct ids, user and assistant
\* messages in turn: the parentId links are free, so they may form a cycle.
WalkStores ==
  {st \in [1..MaxWalkLen -> [id : 1..MaxWalkLen, parentId : 0..MaxWalkLen,
                             from : {"user", "assistant"}, isError : {FALSE},
                             code : {FALSE}]] :
     \A i \in 1..MaxWalkLen :
       st[i].id = i /\ (st[i].from = "user" <=> i % 2 = 1)}

InitWalk ==
  /\ messages \in WalkStores
  /\ activeBranches = <<>>
  /\ taskState = INITIAL_TASK_STATE
  /\ isLoading = FALSE
  /\ pending = EmptyBag
  /\ timers = 0
  /\ nextId = MaxWalkLen + 1
  /\ idBudget = MaxWalkLen
  /\ lastOp = [op |-> "init", id |-> NULL, removed |-> 0, reply |-> NoReply]
  /\ accepted = NoSubmit
  /\ retried = NoRetry
  /\ editor = NULL
  /\ walk = NoWalk
  /\ InitThumb

WalkUnchanged ==
  /\ UNCHANGED <<activeBranches, taskState, isLoading, pending, timers, nextId,
                 idBudget, lastOp, accepted, retried, editor>>
  /\ ThumbUnchanged

\* The updater is entered: collectDescendants(parentId) is called.
WalkBegin(parentId) ==
  /\ walk.pc = "idle"
  /\ walk' = [pc |-> "collecting", stack |-> <<Frame(messages, parentId)>>,
              idsToDelete |-> {}]
  /\ UNCHANGED messages
  /\ WalkUnchanged

\* forEach takes the next child: idsToDelete.add(child.id), then the call
\* collectDescendants(child.id).
WalkCall ==
  /\ walk.pc = "collecting"
  /\ walk.stack # <<>>
  /\ LET top == walk.stack[Len(walk.stack)]
     IN /\ top.todo # <<>>
        /\ Len(walk.stack) < MaxStack
        /\ walk' = [walk EXCEPT
                      !.idsToDelete = @ \cup {Head(top.todo)},
                      !.stack = Append([@ EXCEPT ![Len(@)].todo = Tail(top.todo)],
                                       Frame(messages, Head(top.todo)))]
  /\ UNCHANGED messages
  /\ WalkUnchanged

\* The same call with the call stack exhausted: the engine throws RangeError
\* and the updater does not return.
WalkOverflow ==
  /\ walk.pc = "collecting"
  /\ walk.stack # <<>>
  /\ walk.stack[Len(walk.stack)].todo # <<>>
  /\ Len(walk.stack) >= MaxStack
  /\ walk' = [walk EXCEPT !.pc = "overflow"]
  /\ UNCHANGED messages
  /\ WalkUnchanged

\* forEach is done: the call returns to its caller.
WalkPop ==
  /\ walk.pc = "collecting"
  /\ walk.stack # <<>>
  /\ walk.stack[Len(walk.stack)].todo = <<>>
  /\ walk' = [walk EXCEPT !.stack = SubSeq(@, 1, Len(@) - 1)]
  /\ UNCHANGED messages
  /\ WalkUnchanged

\* The outermost call has returned: prev.filter(m => !idsToDelete.has(m.id)).
WalkReturn ==
  /\ walk.pc = "collecting"
  /\ walk.stack = <<>>
  /\ messages' = SelectSeq(messages, LAMBDA m : m.id \notin walk.idsToDelete)
  /\ walk' = [walk EXCEPT !.pc = "returned"]
  /\ WalkUnchanged

NextWalk ==
  \/ \E parentId \in 1..MaxWalkLen : WalkBegin(parentId)
  \/ WalkCall
  \/ WalkOverflow
  \/ WalkPop
  \/ WalkReturn

\* deleteDescendants applied to any store; the engine keeps running the call.
SpecWalk == InitWalk /\ [][NextWalk]_vars /\ WF_vars(NextWalk)

----------------------------------------------------------------------------
(* useThumbnailCapture: mounts, unmounts and captures *)

\* The effect of a hook runs on mount.
Mount(h) ==
  /\ h \notin mounted
  /\ sharedRenderer = NULL => renderers.created < MaxRenderers
  /\ LET s == getSharedRenderer(Shared)
     IN /\ sharedRenderer' = s.sharedRenderer
        /\ refCount' = s.refCount
        /\ renderers' = s.renderers
        /\ rendererRef' = [rendererRef EXCEPT ![h] = s.sharedRenderer]
  /\ mounted' = mounted \cup {h}
  /\ captured' = captured
  /\ PanelUnchanged

\* The cleanup of a hook's effect runs on unmount.
Unmount(h) ==
  /\ h \in mounted
  /\ LET s == releaseSharedRenderer(Shared)
     IN /\ sharedRenderer' = s.sharedRenderer
        /\ refCount' = s.refCount
        /\ renderers' = s.renderers
  /\ rendererRef' = [rendererRef EXCEPT ![h] = NULL]
  /\ mounted' = mounted \ {h}
  /\ captured' = captured
  /\ PanelUnchanged

\* captureThumbnail of a hook is called; the callback outlives the mount.
captureThumbnail(h) ==
  /\ captured' = [hook |-> h, renderer |-> rendererRef[h]]
  /\ UNCHANGED <<sharedRenderer, refCount, rendererRef, mounted, renderers>>
  /\ PanelUnchanged

NextThumb ==
  \/ \E h \in Hooks : Mount(h)
  \/ \E h \in Hooks : Unmount(h)
  \/ \E h \in Hooks : captureThumbnail(h)

\* Components using the hook mount and unmount in any order.
SpecThumb == Init /\ [][NextThumb]_vars

----------------------------------------------------------------------------
(* The reroll variant: a user message keeps every response *)

\* A callAPI of the reroll variant suspended at `await sendPrompt(...)` for
\* userMessageId, with what the rest of its calling handler will use: the
\* parent key and the sibling count of the handler's render (handleEdit).
AtSendPromptOf(handler, userMessageId, parentKey, siblings) ==
  [pc |-> "callAPI:sendPrompt", arg |-> userMessageId, handler |-> handler,
   parentKey |-> parentKey, siblings |-> siblings]

RECURSIVE traverseResponses(_, _, _)
traverseResponses(msgs, ab, userMessage) ==
  LET assistantResponses == getAssistantResponses(msgs, userMessage.id)
      activeAssistant ==
        ArrayAt(assistantResponses,
                Min(BranchGet(ab, userMessage.id), Len(assistantResponses) - 1))
  IN IF Len(assistantResponses) = 0 THEN <<userMessage>>
     ELSE IF activeAssistant = undefined THEN <<userMessage>>
     ELSE
       LET followUpUsers == UserChildren(msgs, activeAssistant.id)
           activeFollowUp ==
             ArrayAt(followUpUsers,
                     Min(BranchGet(ab, activeAssistant.id), Len(followUpUsers) - 1))
       IN IF Len(followUpUsers) > 0 /\ activeFollowUp # undefined
            THEN <<userMessage, activeAssistant>> \o traverseResponses(msgs, ab, activeFollowUp)
            ELSE <<userMessage, activeAssistant>>

displayMessagesOfResponses(msgs, ab) ==
  LET rootUserMessages == UserChildren(msgs, NULL)
      activeRootUser ==
        ArrayAt(rootUserMessages, Min(BranchGet(ab, NULL), Len(rootUserMessages) - 1))
  IN IF Len(rootUserMessages) = 0 THEN <<>>
     ELSE IF activeRootUser = undefined THEN <<>>
     ELSE traverseResponses(msgs, ab, activeRootUser)

\* What the Chat of the reroll variant renders.
displayOfResponses == displayMessagesOfResponses(messages, activeBranches)

\* activateNewBranch: selects the newest response of the user message.
activateNewBranch(msgs, ab, userMessageId) ==
  LET responses == getAssistantResponses(msgs, userMessageId)
  IN IF Len(responses) > 0
       THEN setActiveBranch(ab, userMessageId, Len(responses) - 1)
       ELSE ab

\* The branchInfo Chat hands to an AssistantMessage.
assistantBranchInfo(msgs, message) ==
  IF message.parentId # NULL
    THEN [count |-> Len(getAssistantResponses(msgs, message.parentId)), activeIndex |-> 0]
    ELSE [count |-> 1, activeIndex |-> 0]

\* The index the left arrow passes to onBranchChange.
previousIndex(branchInfo) ==
  IF branchInfo.activeIndex > 0 THEN branchInfo.activeIndex - 1 ELSE branchInfo.count - 1

\* The index the right arrow passes to onBranchChange.
nextIndex(branchInfo) ==
  IF branchInfo.activeIndex < branchInfo.count - 1 THEN branchInfo.activeIndex + 1 ELSE 0

\* What a handler of the reroll variant leaves alone.
HistoryUnchanged ==
  /\ accepted' = accepted
  /\ retried' = retried
  /\ walk' = walk
  /\ idBudget' = idBudget
  /\ ThumbUnchanged

\* handleSubmit up to the await in callAPI.
handleSubmitOfResponses ==
  /\ ~isLoading
  /\ IdsLeft(2)
  /\ messages' = addUserMessage(messages, nextId, getLastAssistantId(displayOfResponses), TRUE)
  /\ isLoading' = TRUE
  /\ taskState' = startTask
  /\ pending' = Suspend(pending, AtSendPromptOf("submit", nextId, NULL, 0))
  /\ nextId' = nextId + 1
  /\ lastOp' = [op |-> "submit", id |-> nextId, removed |-> 0, reply |-> NoReply]
  /\ editor' = editor
  /\ HistoryUnchanged
  /\ UNCHANGED <<activeBranches, timers>>

\* handleReroll up to the await in callAPI: prepareReroll deletes nothing.
handleRerollOfResponses(userMessageId) ==
  /\ ~isLoading
  /\ userMessageId \in {displayOfResponses[i].id : i \in DOMAIN displayOfResponses}
  /\ LET userMessage == FindMessage(messages, userMessageId)
     IN userMessage # undefined /\ userMessage.from = "user"
  /\ IdsLeft(1)
  /\ isLoading' = TRUE
  /\ taskState' = startTask
  /\ pending' = Suspend(pending, AtSendPromptOf("reroll", userMessageId, NULL, 0))
  /\ lastOp' = [op |-> "reroll", id |-> userMessageId, removed |-> 0, reply |-> NoReply]
  /\ editor' = editor
  /\ HistoryUnchanged
  /\ UNCHANGED <<messages, activeBranches, timers, nextId>>

\* handleEdit up to the await in callAPI: a sibling of the message is added.
handleEditOfResponses(userMessageId) ==
  /\ ~isLoading
  /\ userMessageId \in {displayOfResponses[i].id : i \in DOMAIN displayOfResponses}
  /\ LET originalMessage == FindMessage(messages, userMessageId)
         parentId == originalMessage.parentId
     IN /\ originalMessage # undefined
        /\ originalMessage.from = "user"
        /\ IdsLeft(2)
        /\ messages' = addUserMessage(messages, nextId, parentId, TRUE)
        /\ pending' = Suspend(pending,
                              AtSendPromptOf("edit", nextId, parentId,
                                             Len(UserChildren(messages, parentId))))
  /\ isLoading' = TRUE
  /\ taskState' = startTask
  /\ nextId' = nextId + 1
  /\ lastOp' = [op |-> "edit", id |-> userMessageId, removed |-> 0, reply |-> NoReply]
  /\ editor' = editor
  /\ HistoryUnchanged
  /\ UNCHANGED <<activeBranches, timers>>

\* The rest of the handler after `await callAPI(...)`: handleReroll selects
\* the newest response, handleEdit selects by the sibling count of its render.
AfterCallAPI(r, msgs, ab) ==
  IF r.handler = "reroll" THEN activateNewBranch(msgs, ab, r.arg)
  ELSE IF r.handler = "edit" THEN setActiveBranch(ab, r.parentKey, r.siblings - 1)
  ELSE ab

\* sendPrompt resolved: setCompiling, setCodeAndCompile, addAssistantMessage,
\* completeTask, then the rest of the calling handler.
SendPromptResolved(r, reply) ==
  /\ r.pc = "callAPI:sendPrompt"
  /\ sendPrompt(reply) = "resolved"
  /\ BagIn(r, pending)
  /\ messages' = addAssistantMessage(messages, nextId, r.arg, TRUE, FALSE)
  /\ activeBranches' = AfterCallAPI(r, messages', activeBranches)
  /\ taskState' = completeTask(setCompiling(taskState))
  /\ timers' = scheduleReset(timers)
  /\ isLoading' = FALSE
  /\ pending' = Resume(pending, r)
  /\ nextId' = nextId + 1
  /\ lastOp' = [op |-> "complete", id |-> r.arg, removed |-> 0, reply |-> reply]
  /\ editor' = setCodeAndCompile(editor, r.arg)
  /\ HistoryUnchanged

\* sendPrompt rejected: the catch block, then the rest of the calling handler.
SendPromptRejected(r, reply) ==
  /\ r.pc = "callAPI:sendPrompt"
  /\ sendPrompt(reply) = "rejected"
  /\ BagIn(r, pending)
  /\ messages' = addAssistantMessage(messages, nextId, r.arg, FALSE, TRUE)
  /\ activeBranches' = AfterCallAPI(r, messages', activeBranches)
  /\ taskState' = errorTask(taskState)
  /\ isLoading' = FALSE
  /\ pending' = Resume(pending, r)
  /\ nextId' = nextId + 1
  /\ lastOp' = [op |-> "fail", id |-> r.arg, removed |-> 0, reply |-> reply]
  /\ editor' = editor
  /\ HistoryUnchanged
  /\ UNCHANGED timers

\* A branch arrow of a displayed assistant message: which is 1 for the left
\* arrow and 2 for the right one.
AssistantArrow(assistantId, which) ==
  /\ ~isLoading
  /\ \E i \in DOMAIN displayOfResponses :
       /\ displayOfResponses[i].id = assistantId
       /\ displayOfResponses[i].from = "assistant"
       /\ LET message == displayOfResponses[i]
              branchInfo == assistantBranchInfo(messages, message)
              newIndex == IF which = 1 THEN previousIndex(branchInfo) ELSE nextIndex(branchInfo)
          IN /\ branchInfo.count > 1
             /\ activeBranches' = setActiveBranch(activeBranches, message.parentId, newIndex)
  /\ lastOp' = [op |-> IF which = 1 THEN "assistantPrevious" ELSE "assistantNext",
                id |-> assistantId, removed |-> 0, reply |-> NoReply]
  /\ editor' = editor
  /\ HistoryUnchanged
  /\ UNCHANGED <<messages, taskState, isLoading, pending, timers, nextId>>

AssistantPrevious(assistantId) == AssistantArrow(assistantId, 1)

AssistantNext(assistantId) == AssistantArrow(assistantId, 2)

\* A branch arrow of a displayed user message.
UserArrow(userMessageId, which) ==
  /\ ~isLoading
  /\ \E i \in DOMAIN displayOfResponses :
       /\ displayOfResponses[i].id = userMessageId
       /\ displayOfResponses[i].from = "user"
  /\ LET branchInfo == getBranchInfo(messages, activeBranches, userMessageId)
         parentKey == FindMessage(messages, userMessageId).parentId
         newIndex == IF which = 1 THEN previousIndex(branchInfo) ELSE nextIndex(branchInfo)
     IN /\ branchInfo.count > 1
        /\ activeBranches' = setActiveBranch(activeBranches, parentKey, newIndex)
  /\ lastOp' = [op |-> IF which = 1 THEN "previous" ELSE "next",
                id |-> userMessageId, removed |-> 0, reply |-> NoReply]
  /\ editor' = editor
  /\ HistoryUnchanged
  /\ UNCHANGED <<messages, taskState, isLoading, pending, timers, nextId>>

UserPrevious(userMessageId) == UserArrow(userMessageId, 1)

UserNext(userMessageId) == UserArrow(userMessageId, 2)

NextOfResponses ==
  \/ handleSubmitOfResponses
  \/ \E u \in 1..MaxMultiId : handleRerollOfResponses(u)
  \/ \E u \in 1..MaxMultiId : handleEditOfResponses(u)
  \/ \E r \in BagToSet(pending), reply \in Replies : SendPromptResolved(r, reply)
  \/ \E r \in BagToSet(pending), reply \in Replies : SendPromptRejected(r, reply)
  \/ \E a \in 1..MaxMultiId : AssistantPrevious(a)
  \/ \E a \in 1..MaxMultiId : AssistantNext(a)
  \/ \E u \in 1..MaxMultiId : UserPrevious(u)
  \/ \E u \in 1..MaxMultiId : UserNext(u)
  \/ AutoReset
  \/ clearHistory

\* The panel of the reroll variant.
SpecMulti == InitWith(MaxMultiId) /\ [][NextOfResponses]_vars

----------------------------------------------------------------------------
(* Claims *)

\* The ids of the stored messages.
StoredIds == {messages[i].id : i \in DOMAIN messages}

\* C1: every stored message with a non-null parentId has its parent in the
\* store, after any interleaving of submit, retry, edit, clear and completions.
C1_NoOrphans ==
  \A i \in DOMAIN messages :
    messages[i].parentId # NULL => messages[i].parentId \in StoredIds

\* C2: every user message has at most one assistant child.
C2_AtMostOneResponse ==
  \A i \in DOMAIN messages :
    messages[i].from = "user" => Len(getAssistantResponses(messages, messages[i].id)) <= 1

\* The stored message with the given id is a message of the given role.
StoredWithRole(id, role) ==
  \E j \in DOMAIN messages : messages[j].id = id /\ messages[j].from = role

\* C3: every assistant message's parentId is the id of a user message, and
\* every user message's parentId is null or the id of an assistant message.
C3_ParentRoles ==
  \A i \in DOMAIN messages :
    /\ messages[i].from = "assistant" => StoredWithRole(messages[i].parentId, "user")
    /\ messages[i].from = "user" =>
         (messages[i].parentId = NULL \/ StoredWithRole(messages[i].parentId, "assistant"))

\* C4: the display sequence is empty or starts with a user message, and the
\* roles of its elements alternate user, assistant, user, assistant.
C4_Alternation ==
  \A i \in DOMAIN display :
    display[i].from = (IF i % 2 = 1 THEN "user" ELSE "assistant")

\* C4 witness: a displayed conversation of two full exchanges.
C4_Witness ==
  /\ Len(display) >= 4
  /\ display[3].from = "user"
  /\ display[4].from = "assistant"

Clamp(i, lo, hi) == IF i < lo THEN lo ELSE IF i > hi THEN hi ELSE i

\* C5: for any stored index the projection shows the sibling at position
\* clamp(index, 0, count-1): the root user message at that position comes
\* first (so the display is non-empty when a root exists), and each displayed
\* assistant message with follow-ups is followed by the follow-up at that
\* position.
C5_ClampSelects ==
  LET roots == UserChildren(messages, NULL)
  IN /\ Len(roots) > 0 =>
          /\ Len(display) > 0
          /\ display[1] = roots[Clamp(BranchGet(activeBranches, NULL), 0, Len(roots) - 1) + 1]
     /\ \A i \in DOMAIN display :
          LET followUps == UserChildren(messages, display[i].id)
          IN (display[i].from = "assistant" /\ Len(followUps) > 0) =>
               /\ Len(display) > i
               /\ display[i + 1] =
                    followUps[Clamp(BranchGet(activeBranches, display[i].id), 0, Len(followUps) - 1) + 1]

\* The message's parentId chain, followed through the given store for at most n links.
RECURSIVE ParentChain(_, _, _)
ParentChain(msgs, parentId, n) ==
  IF parentId = NULL \/ n = 0 THEN {}
  ELSE {parentId} \cup ParentChain(msgs, FindMessage(msgs, parentId).parentId, n - 1)

\* C6: a retry of user message U leaves U in the store and removes every
\* message whose parentId chain reached U.
C6_RetryDeletesSubtree ==
  [][\A u \in 1..MaxId :
       handleReroll(u) =>
         /\ u \in {messages'[i].id : i \in DOMAIN messages'}
         /\ \A i \in DOMAIN messages :
              u \in ParentChain(messages, messages[i].parentId, Len(messages)) =>
                messages[i].id \notin {messages'[j].id : j \in DOMAIN messages'}]_vars

\* C6 witness: a retry has just removed a response, its follow-up and the
\* follow-up's response.
C6_Witness ==
  /\ lastOp.op = "retry"
  /\ lastOp.removed >= 3
  /\ lastOp.id \in StoredIds

\* C7: while a generation request is in flight the task status is thinking or
\* compiling.
C7_InFlightStatus ==
  InFlight # {} => taskState.status \in {"thinking", "compiling"}

\* C8: a pipeline in status error keeps its state, with a step marked error,
\* until the next startTask (submit, retry, edit) or clearHistory.
C8_ErrorIsTerminal ==
  [][taskState.status = "error" =>
       /\ \E i \in DOMAIN taskState.steps : taskState.steps[i].status = "error"
       /\ \/ taskState' = taskState
          \/ lastOp'.op \in {"submit", "retry", "edit", "clear"}]_vars

StepStatuses == [i \in DOMAIN taskState.steps |-> taskState.steps[i].status]

\* C9: the steps match the status in every state.
C9_StepsMatchStatus ==
  /\ taskState.status = "idle" => taskState.steps = <<>>
  /\ taskState.status = "thinking" => StepStatuses = <<"in_progress", "pending">>
  /\ taskState.status = "compiling" => StepStatuses = <<"complete", "in_progress">>
  /\ taskState.status = "complete" => StepStatuses = <<"complete", "complete">>
  /\ taskState.status = "error" =>
       Cardinality({i \in DOMAIN taskState.steps : taskState.steps[i].status = "error"}) = 1

\* C10: a completed pipeline is eventually reset to idle with no steps.
C10_CompleteAutoResets ==
  (taskState.status = "complete") ~> (taskState = INITIAL_TASK_STATE)

\* C10 witness: the scheduled reset has fired with nothing else in progress.
C10_Witness ==
  /\ lastOp.op = "autoReset"
  /\ taskState = INITIAL_TASK_STATE
  /\ pending = EmptyBag
  /\ Len(messages) >= 2

\* C11: a submit accepted while nothing is in flight adds a user message
\* under the last assistant message of the display it was accepted on (null
\* if there is none), and once its response is added the display is that
\* display followed by the new user message and the response.
C11_SubmitChains ==
  [][/\ (accepted'.live /\ accepted'.user # NULL /\ accepted'.user # accepted.user) =>
          LET added == messages'[Len(messages')]
          IN /\ added.id = accepted'.user
             /\ added.from = "user"
             /\ added.parentId = accepted'.parent
     /\ (accepted.live /\ accepted.user # NULL /\ lastOp'.op \in {"fail", "complete"}
           /\ lastOp'.id = accepted.user) =>
          Ids(display') = accepted.view \o <<accepted.user, nextId>>]_vars

\* C12: after a retry of a displayed user message U the display is its former
\* prefix up to and including U until a response to U is added, and then that
\* prefix followed by exactly the one new assistant message.
C12_RetryTruncates ==
  [][/\ (retried'.user # NULL) => Ids(display') = retried'.view
     /\ (retried.user # NULL /\ lastOp'.op \in {"fail", "complete"}
           /\ lastOp'.id = retried.user) =>
          Ids(display') = retried.view \o <<nextId>>]_vars

\* The number of user messages of msgs whose parentId is parentId.
SiblingCount(msgs, parentId) ==
  Cardinality({i \in DOMAIN msgs : msgs[i].from = "user" /\ msgs[i].parentId = parentId})

\* The ids of a sequence before the first occurrence of id.
PrefixBefore(ids, id) ==
  SubSeq(ids, 1, (CHOOSE i \in DOMAIN ids : ids[i] = id) - 1)

\* C13: editing user message M adds one user message with M's parentId, so M
\* has one sibling more, selects the new sibling's index under M's parent key,
\* and the display shows the new sibling in M's place, with nothing after it.
C13_EditBranches ==
  [][lastOp'.op = "edit" =>
         LET u == lastOp'.id
             M == FindMessage(messages, u)
             added == messages'[Len(messages')]
         IN /\ Len(messages') = Len(messages) + 1
            /\ SubSeq(messages', 1, Len(messages)) = messages
            /\ added.from = "user"
            /\ added.id \notin StoredIds
            /\ added.parentId = M.parentId
            /\ SiblingCount(messages', M.parentId) = SiblingCount(messages, M.parentId) + 1
            /\ M.parentId \in DOMAIN activeBranches'
            /\ activeBranches'[M.parentId] = SiblingCount(messages, M.parentId)
            /\ Ids(display') = PrefixBefore(Ids(display), u) \o <<added.id>>]_vars

\* C13 witness: a message that had a response has just been edited, and its
\* new sibling, selected at index 1, is all the display shows in its place.
C13_Witness ==
  /\ lastOp.op = "edit"
  /\ Len(display) >= 1
  /\ getAssistantResponses(messages, lastOp.id) # <<>>
  /\ display[Len(display)].id = nextId - 1
  /\ SiblingCount(messages, display[Len(display)].parentId) >= 2
  /\ BranchGet(activeBranches, display[Len(display)].parentId) = 1

FailedGeneration(reply) ==
  \/ reply.kind = "network"
  \/ reply.json = "invalid"
  \/ reply.code # "string"
  \/ reply.explanation # "string"

\* The stored assistant messages that carry a code artifact.
CodeMessages(msgs) ==
  {msgs[i] : i \in {j \in DOMAIN msgs : msgs[j].from = "assistant" /\ msgs[j].code}}

\* C15: a request that comes back with a failed generation is never partially
\* applied: the step does not change the editor code and adds no assistant
\* message carrying a code artifact, and the request is not left waiting for a
\* thumbnail of generated code.
C15_FailureNotApplied ==
  [][(lastOp'.reply # NoReply /\ FailedGeneration(lastOp'.reply)) =>
       /\ editor' = editor
       /\ CodeMessages(messages') \subseteq CodeMessages(messages)
       /\ pending' = Resume(pending, AtSendPrompt(lastOp'.id))]_vars

\* C15 witness: the editor holds the code of an earlier generation and a later
\* request has just come back with an explanation that is not a string.
C15_Witness ==
  /\ lastOp.op = "fail"
  /\ lastOp.reply = LLMContent("fenced", "string", "number")
  /\ editor # NULL
  /\ editor # lastOp.id
  /\ CodeMessages(messages) # {}

\* C16: a retry or an edit that names an id not in the store, and a retry
\* that names an assistant message, returns without changing anything: the
\* messages, the branch selections, the task state and the loading flag stay,
\* and no request is started.
C16_NotFoundIsNoOp ==
  [][LET op == lastOp'.op
         id == lastOp'.id
     IN (\/ op \in {"retry", "retryNotFound"}
              /\ (id \notin StoredIds \/ StoredWithRole(id, "assistant"))
         \/ op \in {"edit", "editNotFound"} /\ id \notin StoredIds) =>
          /\ op \in {"retryNotFound", "editNotFound"}
          /\ UNCHANGED <<messages, activeBranches, taskState, isLoading,
                         pending, timers, nextId, editor>>]_vars

\* C16 witness: with a conversation in the store, a retry has just been
\* called on an assistant message.
C16_Witness ==
  /\ lastOp.op = "retryNotFound"
  /\ StoredWithRole(lastOp.id, "assistant")
  /\ Len(display) >= 2

\* C17: immediately after clearHistory the message store is empty, the
\* branch-selection map is empty, the task status is idle with no steps, and
\* the display sequence is empty.
C17_ClearEmpties ==
  lastOp.op = "clear" =>
    /\ messages = <<>>
    /\ activeBranches = <<>>
    /\ taskState.status = "idle"
    /\ taskState.steps = <<>>
    /\ display = <<>>

\* C17 witness: Clear has just removed a conversation of three messages or
\* more while a request was in flight.
C17_Witness ==
  /\ lastOp.op = "clear"
  /\ lastOp.removed >= 3
  /\ InFlight # {}

\* C18: for every user message m in the store, getBranchInfo(m.id).count is
\* the number of user messages in the store whose parentId is m.parentId,
\* which is at least 1.
C18_BranchCount ==
  \A i \in DOMAIN messages :
    messages[i].from = "user" =>
      LET info == getBranchInfo(messages, activeBranches, messages[i].id)
      IN /\ info.count = SiblingCount(messages, messages[i].parentId)
         /\ info.count >= 1

\* C18 witness: the store holds a user message with a sibling and the
\* response to one of the two.
C18_Witness ==
  /\ \E i \in DOMAIN messages :
       /\ messages[i].from = "user"
       /\ getBranchInfo(messages, activeBranches, messages[i].id).count = 2
       /\ getAssistantResponses(messages, messages[i].id) # <<>>
  /\ Len(messages) >= 4

C21_DisplayIsPath ==
  /\ display # <<>> => display[1].parentId = NULL
  /\ \A i \in 2..Len(display) : display[i].parentId = display[i - 1].id
  /\ \A i, j \in DOMAIN display : i # j => display[i].id # display[j].id
  /\ \A i \in DOMAIN display : \E k \in DOMAIN messages : messages[k] = display[i]

\* C21 witness: the display runs from a root message through its response
\* and a follow-up to the follow-up's response.
C21_Witness ==
  /\ Len(display) >= 4
  /\ display[1].parentId = NULL
  /\ display[4].parentId = display[3].id
  /\ display[3].parentId = display[2].id

\* The zero-based position of the stored message id among the user messages
\* of msgs that share its parentId, in store order.
SiblingIndex(msgs, id) ==
  LET at == CHOOSE i \in DOMAIN msgs : msgs[i].id = id
  IN Cardinality({i \in 1..(at - 1) :
                    msgs[i].from = "user" /\ msgs[i].parentId = msgs[at].parentId})

\* C22: while a user message stays in the store, its position among the user
\* messages that share its parentId does not change, whatever is added or
\* removed.
C22_SiblingOrderStable ==
  [][\A i \in DOMAIN messages :
       (messages[i].from = "user"
          /\ \E j \in DOMAIN messages' : messages'[j].id = messages[i].id) =>
         SiblingIndex(messages', messages[i].id) = SiblingIndex(messages, messages[i].id)]_vars

\* C22 witness: a retry has just removed messages and the store still holds a
\* user message that is the second of its siblings.
C22_Witness ==
  /\ lastOp.op = "retry"
  /\ lastOp.removed >= 1
  /\ \E i \in DOMAIN messages :
       messages[i].from = "user" /\ SiblingIndex(messages, messages[i].id) = 1

\* The number of generation requests in flight: the callAPI continuations
\* suspended at sendPrompt or at the thumbnail of the generated code.
RequestsInFlight == BagCardinality([r \in InFlight |-> pending[r]])

\* C23: at most one generation request is in flight at any time.
C23_OneRequestInFlight == RequestsInFlight <= 1

\* A response to user message u has just been appended and the handler has
\* set the loading flag back to false.
Settled(u) ==
  /\ lastOp.op \in {"fail", "complete"}
  /\ lastOp.id = u
  /\ messages # <<>>
  /\ messages[Len(messages)].from = "assistant"
  /\ messages[Len(messages)].parentId = u
  /\ ~isLoading

\* C24: every accepted submit, retry or edit eventually appends exactly one
\* assistant message under its target user message and sets the loading flag
\* back to false, whether the prompt call succeeds or fails: a suspended
\* submit gets to its request, a request in flight for u gets to its
\* response, and the step that adds the response adds that one message only
\* and ends that one request.
C24_RequestsSettle ==
  /\ \A p \in 0..MaxLiveId :
       BagIn(AtSubmitThumbnail(p), pending) ~>
         (lastOp.op = "submit" /\ BagIn(AtSendPrompt(lastOp.id), pending))
  /\ \A u \in 1..MaxLiveId :
       (\E r \in InFlight : r.arg = u) ~> Settled(u)
  /\ [][lastOp'.op \in {"fail", "complete"} =>
          /\ Len(messages') = Len(messages) + 1
          /\ SubSeq(messages', 1, Len(messages)) = messages
          /\ messages'[Len(messages')].from = "assistant"
          /\ messages'[Len(messages')].parentId = lastOp'.id
          /\ ~isLoading'
          /\ BagCardinality(pending') = BagCardinality(pending) - 1]_vars

\* C24 witness: the response to a retried or edited message has just been
\* added with the loading flag back to false and nothing left in flight.
C24_Witness ==
  /\ \E u \in 1..MaxLiveId : Settled(u) /\ u # 1
  /\ pending = EmptyBag
  /\ Len(messages) >= 4

\* C25: for every user message m of the display, getBranchInfo(m.id) reports
\* an activeIndex in [0, count-1], and m is the activeIndex-th user message
\* (store order) among those sharing its parentId.
C25_BranchInfoNamesDisplayed ==
  \A i \in DOMAIN display :
    display[i].from = "user" =>
      LET info == getBranchInfo(messages, activeBranches, display[i].id)
      IN /\ info.activeIndex >= 0
         /\ info.activeIndex <= info.count - 1
         /\ SiblingIndex(messages, display[i].id) = info.activeIndex

\* C25 witness: the displayed root message is the second of two siblings and
\* its branch info says so.
C25_Witness ==
  /\ display # <<>>
  /\ SiblingIndex(messages, display[1].id) = 1
  /\ getBranchInfo(messages, activeBranches, display[1].id) = [count |-> 2, activeIndex |-> 1]

\* C26: immediately after a submit adds its user message, that message is
\* the last element of the display sequence.
C26_SubmittedIsDisplayedLast ==
  [][lastOp'.op = "submit" =>
       /\ display' # <<>>
       /\ display'[Len(display')].id = lastOp'.id]_vars

\* C27: branch navigation on a displayed user message with count > 1
\* siblings wraps around: from a stored index i in [0, count-1], 'next'
\* stores (i+1) mod count and 'previous' stores (i-1) mod count under the
\* message's parent key, the stored index stays in [0, count-1], and nothing
\* else of the conversation changes.
C27_NavigationWraps ==
  [][lastOp'.op \in {"next", "previous"} =>
       LET M == FindMessage(messages, lastOp'.id)
           count == SiblingCount(messages, M.parentId)
           i == BranchGet(activeBranches, M.parentId)
           stored == BranchGet(activeBranches', M.parentId)
       IN (count > 1 /\ i \in 0..(count - 1)) =>
            /\ M.parentId \in DOMAIN activeBranches'
            /\ lastOp'.op = "next" => stored = (i + 1) % count
            /\ lastOp'.op = "previous" => stored = (i + count - 1) % count
            /\ stored \in 0..(count - 1)
            /\ messages' = messages
            /\ \A k \in DOMAIN activeBranches :
                 k # M.parentId => (k \in DOMAIN activeBranches' /\ activeBranches'[k] = activeBranches[k])]_vars

\* C27 witness: among three root siblings 'next' has just wrapped from the
\* last sibling to the first.
C27_Witness ==
  /\ lastOp.op = "next"
  /\ SiblingCount(messages, NULL) = 3
  /\ FindMessage(messages, lastOp.id).parentId = NULL
  /\ SiblingIndex(messages, lastOp.id) = 2
  /\ BranchGet(activeBranches, NULL) = 0

\* C28: a retry of user message U removes only strict descendants of U:
\* the messages whose parentId chain does not reach U stay in the store with
\* unchanged fields and in the same relative order (U itself among them),
\* and the deletion leaves the branch-selection map unchanged.
C28_RetryKeepsOthers ==
  [][lastOp'.op = "retry" =>
       LET U == lastOp'.id
           Outside(m) == U \notin ParentChain(messages, m.parentId, Len(messages))
       IN /\ SelectSeq(messages', Outside) = SelectSeq(messages, Outside)
          /\ \E i \in DOMAIN messages' : messages'[i].id = U
          /\ activeBranches' = activeBranches]_vars

\* C28 witness: a retry has removed a descendant of U while a message stored
\* after U that is no descendant of U is still in the store, and a branch
\* selection is stored.
C28_Witness ==
  /\ lastOp.op = "retry"
  /\ lastOp.removed >= 1
  /\ activeBranches # <<>>
  /\ \E i, j \in DOMAIN messages :
       /\ messages[i].id = lastOp.id
       /\ i < j
       /\ lastOp.id \notin ParentChain(messages, messages[j].parentId, Len(messages))

\* The stored indices one press of an arrow of the response displayed for
\* user message u can produce, when index j is stored for u.
Presses(u, j) ==
  LET responses == getAssistantResponses(messages, u)
      message == responses[Min(j, Len(responses) - 1) + 1]
      branchInfo == assistantBranchInfo(messages, message)
  IN {previousIndex(branchInfo), nextIndex(branchInfo)}

\* The stored indices some sequence of at most fuel presses can produce.
RECURSIVE PressClosure(_, _, _)
PressClosure(u, S, fuel) ==
  IF fuel = 0 THEN S
  ELSE PressClosure(u, S \cup UNION {Presses(u, j) : j \in S}, fuel - 1)

\* The responses of u that presses of the arrows can make the displayed one.
ReachableResponses(u) ==
  LET n == Len(getAssistantResponses(messages, u))
  IN {Min(j, n - 1) : j \in PressClosure(u, {BranchGet(activeBranches, u)}, n)}

\* C29: in the reroll variant, for a displayed user message with n >= 2
\* responses whose arrows are enabled, every response index in [0, n-1] can
\* be made the displayed response by some sequence of presses of the
\* assistant message's previous and next arrows.
C29_EveryResponseReachable ==
  \A i \in DOMAIN displayOfResponses :
    LET u == displayOfResponses[i]
        n == Len(getAssistantResponses(messages, u.id))
    IN (u.from = "user" /\ n >= 2 /\ ~isLoading) =>
         \A k \in 0..(n - 1) : k \in ReachableResponses(u.id)

\* C30: for the shared thumbnail renderer, after any sequence of mounts and
\* unmounts (each unmount after its own mount) the reference count is the
\* number of mounted hooks, the renderer exists exactly when that count is
\* above 0 and is the one every mounted hook holds, a renderer is disposed
\* exactly at the step where the count drops to 0, and the mount after that
\* constructs a renderer that never existed before.
C30_RefCountTracksMounts ==
  /\ [](/\ refCount = Cardinality(mounted)
        /\ (sharedRenderer # NULL) <=> (refCount > 0)
        /\ \A h \in mounted : rendererRef[h] = sharedRenderer
        /\ renderers.disposed = (1..renderers.created) \ {sharedRenderer})
  /\ [][LET dropped == refCount > 0 /\ refCount' = 0
            raised == refCount = 0 /\ refCount' > 0
        IN /\ dropped <=> (renderers'.disposed # renderers.disposed)
           /\ dropped => (renderers'.disposed = renderers.disposed \cup {sharedRenderer})
           /\ raised => (sharedRenderer' \notin 1..renderers.created)
           /\ raised => (sharedRenderer' \notin renderers'.disposed)]_vars

\* C30 witness: a first renderer was disposed when its last hook unmounted,
\* and two hooks now share a second one.
C30_Witness ==
  /\ renderers.created = 2
  /\ renderers.disposed = {1}
  /\ sharedRenderer = 2
  /\ Cardinality(mounted) = 2
  /\ refCount = 2

====
